---- MODULE Spec2Model ----
(***************************************************************************)
(* Model of the images-batch-pdf command-line converters:                  *)
(*   epub-converter.js  (ImageToEpubConverter: single folder / CSV batch)  *)
(*   gen-pdf.js         (ImageToPdfConverter:  single folder / CSV batch)  *)
(*   gen-lote-epub.js   (MergeEpubConverter:   CSV merge into one EPUB)    *)
(*   gen-lote-pdf.js    (MergePdfConverter:    CSV merge into one PDF)     *)
(* Strings are sequences of one-character strings.                         *)
(***************************************************************************)
EXTENDS Integers, Sequences, FiniteSets, TLC

\* ------------------------------------------------------------------ bounds
\* Largest number of lines of a CSV file of the model.
MaxLines == 2
\* Largest length of a line handed to parseCsvLine.
MaxLineLen == 4
\* Largest number of lines of a text handed to readCsvFile.
MaxCsvLines == 3
\* Largest number of folders handed to generateCSV.
MaxFolders == 3
\* Largest number of entries of a directory listing handed to the scanner.
MaxFiles == 4
\* Largest number of images whose placement fails within one PDF document.
MaxPlaceFail == 2

\* ------------------------------------------------------- string primitives
NL == "\n"
WhiteSpace == {" ", NL, "\t", "\r"}

\* String.prototype.toLowerCase on the characters the model uses.
toLowerCaseChar(c) ==
  CASE c = "P" -> "p" [] c = "N" -> "n" [] c = "G" -> "g"
    [] c = "O" -> "o" [] c = "M" -> "m" [] c = "E" -> "e"
    [] c = "A" -> "a" [] c = "C" -> "c" [] c = "H" -> "h"
    [] c = "I" -> "i" [] c = "J" -> "j"
    [] OTHER -> c

toLowerCase(s) == [k \in 1..Len(s) |-> toLowerCaseChar(s[k])]

\* String.prototype.trim: whitespace removed at both ends.
RECURSIVE trimStart(_)
trimStart(s) ==
  IF s # <<>> /\ Head(s) \in WhiteSpace THEN trimStart(Tail(s)) ELSE s

RECURSIVE trimEnd(_)
trimEnd(s) ==
  IF s # <<>> /\ s[Len(s)] \in WhiteSpace
    THEN trimEnd(SubSeq(s, 1, Len(s) - 1)) ELSE s

trim(s) == trimEnd(trimStart(s))

\* String.prototype.includes: sub occurs in s as a contiguous substring.
includes(s, sub) ==
  \E k \in 0..(Len(s) - Len(sub)) : SubSeq(s, k + 1, k + Len(sub)) = sub

\* String.prototype.endsWith.
endsWith(s, suffix) ==
  /\ Len(s) >= Len(suffix)
  /\ SubSeq(s, Len(s) - Len(suffix) + 1, Len(s)) = suffix

\* String.prototype.split on a one-character separator: always at least one
\* element (the empty string splits into one empty string).
RECURSIVE splitFrom(_, _, _)
splitFrom(s, sep, cur) ==
  IF s = <<>> THEN <<cur>>
  ELSE IF Head(s) = sep THEN <<cur>> \o splitFrom(Tail(s), sep, <<>>)
  ELSE splitFrom(Tail(s), sep, Append(cur, Head(s)))

split(s, sep) == splitFrom(s, sep, <<>>)

\* Index of the last occurrence of character c in s, 0 when there is none.
RECURSIVE lastIndexOf(_, _)
lastIndexOf(s, c) ==
  IF s = <<>> THEN 0
  ELSE IF s[Len(s)] = c THEN Len(s)
  ELSE lastIndexOf(SubSeq(s, 1, Len(s) - 1), c)

\* path.extname: from the last dot to the end; empty when there is no dot or
\* the only dot is the first character of the name.
extname(f) ==
  LET d == lastIndexOf(f, ".")
  IN IF d <= 1 THEN <<>> ELSE SubSeq(f, d, Len(f))

\* path.basename(f, ext): the name with the given extension removed.
basename(f, ext) ==
  IF ext # <<>> /\ endsWith(f, ext) /\ Len(f) > Len(ext)
    THEN SubSeq(f, 1, Len(f) - Len(ext)) ELSE f

\* path.join(dir, file)
pathJoin(dir, file) == dir \o <<"/">> \o file

\* --------------------------------------------------------- CSV parsing
\* parseCsvLine: a quote toggles inQuotes and is dropped, a semicolon outside
\* quotes ends the current field, every other character is kept. The state
\* of the scan is <<result, current, inQuotes>>.
RECURSIVE parseCsvScan(_, _, _, _)
parseCsvScan(line, result, current, inQuotes) ==
  IF line = <<>> THEN Append(result, current)
  ELSE LET char == Head(line) IN
    IF char = "\"" THEN parseCsvScan(Tail(line), result, current, ~inQuotes)
    ELSE IF char = ";" /\ ~inQuotes
      THEN parseCsvScan(Tail(line), Append(result, current), <<>>, inQuotes)
    ELSE parseCsvScan(Tail(line), result, Append(current, char), inQuotes)

\* Variant: the line is split at every semicolon, quotes are ordinary text.
parseCsvLineNaive(line) == split(line, ";")

parseCsvLine(line) == parseCsvScan(line, <<>>, <<>>, FALSE)

nomeWord == <<"n", "o", "m", "e">>
caminhoWord == <<"c", "a", "m", "i", "n", "h", "o">>

\* Variant: the header test is applied to every line.
isHeaderLineAnywhere(i, line) ==
  /\ includes(toLowerCase(line), nomeWord)
  /\ includes(toLowerCase(line), caminhoWord)

\* The header test of readCsvFile: only for the line of index 0.
isHeaderLine(i, line) ==
  /\ i = 0
  /\ includes(toLowerCase(line), nomeWord)
  /\ includes(toLowerCase(line), caminhoWord)

\* Variant: a line is skipped only when both name and path are empty.
emptyNameAndPath(nome, caminho) == nome = <<>> /\ caminho = <<>>

\* The test `!nome || !caminho` of readCsvFile.
emptyNameOrPath(nome, caminho) == nome = <<>> \/ caminho = <<>>

\* The loop of readCsvFile from line index i (0-based) on: the entries pushed.
RECURSIVE readCsvLines(_, _)
readCsvLines(lines, i) ==
  IF i >= Len(lines) THEN <<>>
  ELSE LET line == trim(lines[i + 1])
           columns == parseCsvLine(line)
           rest == readCsvLines(lines, i + 1)
       IN IF line = <<>> THEN rest
          ELSE IF isHeaderLine(i, line) THEN rest
          ELSE IF Len(columns) < 2 THEN rest
          ELSE IF emptyNameOrPath(trim(columns[1]), trim(columns[2])) THEN rest
          ELSE <<[nome |-> trim(columns[1]), caminho |-> trim(columns[2])]>> \o rest

\* readCsvFile on the content of a readable file: either the entries or the
\* error it throws (both errors are rethrown wrapped by the catch).
readCsvFile(content) ==
  LET lines == split(trim(content), NL)
      entries == readCsvLines(lines, 0)
  IN IF Len(lines) = 0 THEN [ok |-> FALSE, error |-> "csv-vazio", entries |-> <<>>]
     ELSE IF Len(entries) = 0
       THEN [ok |-> FALSE, error |-> "nenhuma-entrada", entries |-> <<>>]
     ELSE [ok |-> TRUE, error |-> "", entries |-> entries]

\* ------------------------------------------------------ folder scanning
supportedExtensions ==
  { <<".", "j", "p", "g">>, <<".", "j", "p", "e", "g">>, <<".", "p", "n", "g">>,
    <<".", "g", "i", "f">>, <<".", "b", "m", "p">>, <<".", "w", "e", "b", "p">> }

\* Variant: the extension is compared as it is written.
isImageFileCaseSensitive(file) == extname(file) \in supportedExtensions

\* The filter callback of readImageFiles.
isImageFile(file) == toLowerCase(extname(file)) \in supportedExtensions

\* Array.prototype.filter
RECURSIVE filterImages(_)
filterImages(files) ==
  IF files = <<>> THEN <<>>
  ELSE IF isImageFile(Head(files))
    THEN <<Head(files)>> \o filterImages(Tail(files))
    ELSE filterImages(Tail(files))

\* ------------------------------------------------------ natural sorting
Digits == {"0", "1", "2", "9"}
digitValue(c) == CASE c = "0" -> 0 [] c = "1" -> 1 [] c = "2" -> 2 [] c = "9" -> 9

\* The value of the longest digit prefix of s, acc so far; seen tells whether
\* a digit was read.
RECURSIVE parseDigits(_, _, _)
parseDigits(s, acc, seen) ==
  IF s # <<>> /\ Head(s) \in Digits
    THEN parseDigits(Tail(s), 10 * acc + digitValue(Head(s)), TRUE)
    ELSE [nan |-> ~seen, val |-> acc]

\* parseInt(string): leading whitespace skipped, an optional sign, then the
\* longest prefix of decimal digits; NaN when there is no digit.
parseInt(s) ==
  LET t == trimStart(s)
      neg == t # <<>> /\ Head(t) = "-"
      u == IF t # <<>> /\ Head(t) \in {"-", "+"} THEN Tail(t) ELSE t
      r == parseDigits(u, 0, FALSE)
  IN [nan |-> r.nan, val |-> IF neg THEN 0 - r.val ELSE r.val]

\* Collation order of the characters of file names (white space, punctuation,
\* symbols, digits, letters), as String.prototype.localeCompare ranks them.
CollationOrder ==
  <<" ", "-", ".", "+", "0", "1", "2", "9", "a", "b", "c", "d", "e", "f", "g",
    "h", "i", "j", "m", "n", "o", "p", "r", "t", "w", "x">>

collationRank(c) ==
  LET l == toLowerCaseChar(c)
  IN IF \E k \in 1..Len(CollationOrder) : CollationOrder[k] = l
       THEN CHOOSE k \in 1..Len(CollationOrder) : CollationOrder[k] = l
       ELSE 0

\* Lexicographic three-way comparison of two sequences of integer keys.
RECURSIVE compareKeys(_, _)
compareKeys(a, b) ==
  IF a = <<>> /\ b = <<>> THEN 0
  ELSE IF a = <<>> THEN -1
  ELSE IF b = <<>> THEN 1
  ELSE IF Head(a) < Head(b) THEN -1
  ELSE IF Head(a) > Head(b) THEN 1
  ELSE compareKeys(Tail(a), Tail(b))

caseRank(c) == IF toLowerCaseChar(c) = c THEN 0 ELSE 1

\* a.localeCompare(b): letters and digits first, case only as a tie-break
\* (lower case before upper case).
localeCompare(a, b) ==
  LET primary == compareKeys([k \in 1..Len(a) |-> collationRank(a[k])],
                             [k \in 1..Len(b) |-> collationRank(b[k])])
  IN IF primary # 0 THEN primary
     ELSE compareKeys([k \in 1..Len(a) |-> caseRank(a[k])],
                      [k \in 1..Len(b) |-> caseRank(b[k])])

\* Variant: the file names are compared as text only.
compareFilesByName(a, b) == localeCompare(a, b)

\* The comparator handed to files.sort by sortFilesNumerically.
compareFiles(a, b) ==
  LET numA == parseInt(basename(a, extname(a)))
      numB == parseInt(basename(b, extname(b)))
  IN IF numA.nan \/ numB.nan THEN localeCompare(a, b)
     ELSE numA.val - numB.val

\* Array.prototype.sort on a short array, as the runtime performs it: the
\* longest initial run is found (reversed when strictly descending) and the
\* remaining elements are placed by binary insertion. The sort is stable.
RECURSIVE runEnd(_, _, _)
runEnd(a, idx, desc) ==
  IF idx > Len(a) THEN Len(a)
  ELSE LET order == compareFiles(a[idx], a[idx - 1])
       IN IF (desc /\ order >= 0) \/ (~desc /\ order < 0) THEN idx - 1
          ELSE runEnd(a, idx + 1, desc)

reversePrefix(a, n) ==
  [k \in 1..Len(a) |-> IF k <= n THEN a[n + 1 - k] ELSE a[k]]

RECURSIVE binarySearch(_, _, _, _)
binarySearch(a, pivot, left, right) ==
  IF left >= right THEN left
  ELSE LET mid == left + ((right - left) \div 2)
       IN IF compareFiles(pivot, a[mid]) < 0
            THEN binarySearch(a, pivot, left, mid)
            ELSE binarySearch(a, pivot, mid + 1, right)

\* Variant: the element is written to its place without moving the others up.
insertAtOverwriting(a, from, to) == [a EXCEPT ![to] = a[from]]

insertAt(a, from, to) ==
  [k \in 1..Len(a) |->
     IF k < to \/ k > from THEN a[k]
     ELSE IF k = to THEN a[from] ELSE a[k - 1]]

RECURSIVE binaryInsertionSort(_, _)
binaryInsertionSort(a, start) ==
  IF start > Len(a) THEN a
  ELSE binaryInsertionSort(
         insertAt(a, start, binarySearch(a, a[start], 1, start)), start + 1)

arraySort(a) ==
  IF Len(a) < 2 THEN a
  ELSE LET desc == compareFiles(a[2], a[1]) < 0
           run == runEnd(a, 3, desc)
           made == IF desc THEN reversePrefix(a, run) ELSE a
       IN binaryInsertionSort(made, run + 1)

sortFilesNumerically(files) == arraySort(files)

\* --------------------------------------------------------- the file system
\* The folders the runs are given: A and B hold images (in directory-listing
\* order, not sorted), E is a directory without a supported image, F is a
\* regular file, M does not exist.
dirA == <<"A">>
dirB == <<"B">>
dirE == <<"E">>
fileF == <<"F">>
dirM == <<"M">>

listingOf(folderPath) ==
  CASE folderPath = dirA ->
         << <<"1", "0", ".", "w", "e", "b", "p">>, <<"2", ".", "P", "N", "G">>,
            <<"r", ".", "t", "x", "t">>, <<"1", ".", "j", "p", "g">> >>
    [] folderPath = dirB ->
         << <<"b", ".", "j", "p", "g">>, <<"a", ".", "p", "n", "g">> >>
    [] folderPath = dirE -> << <<"r", ".", "t", "x", "t">> >>
    [] OTHER -> <<>>

\* fs.stat of a folder path: a directory, another kind of file, or ENOENT.
statOf(folderPath) ==
  IF folderPath \in {dirA, dirB, dirE} THEN "directory"
  ELSE IF folderPath = fileF THEN "file"
  ELSE "ENOENT"

\* The lines CSV files of the model are made of.
headerLine == nomeWord \o <<";">> \o caminhoWord
nameR == <<"r">>
nameREpub == <<"r", ".", "e", "p", "u", "b">>
nameRPdf == <<"r", ".", "p", "d", "f">>
LinePool ==
  { headerLine,
    nameR \o <<";">> \o dirA,
    nameREpub \o <<";">> \o dirB,
    nameRPdf \o <<";">> \o dirE,
    nameR \o <<";">> \o dirB,
    <<"s", ";">> \o dirB,
    <<"t", ";">> \o dirM }

RECURSIVE joinLines(_)
joinLines(lines) ==
  IF lines = <<>> THEN <<>> ELSE Head(lines) \o <<NL>> \o joinLines(Tail(lines))

CsvContents ==
  { joinLines(ls) : ls \in UNION { [1..n -> LinePool] : n \in 0..MaxLines } }

\* The CSV file named on the command line: absent, present but unreadable, or
\* readable with a content.
CsvFiles ==
  { [state |-> "missing", content |-> <<>>],
    [state |-> "unreadable", content |-> <<>>] }
  \cup { [state |-> "readable", content |-> c] : c \in CsvContents }

csvArg == <<"c", "s", "v">>
Progs == {"epub", "pdf", "mergeEpub", "mergePdf"}
SingleFolders == {dirA, dirB, dirE, fileF, dirM}

\* The arguments after the script name (process.argv from index 2 on).
ArgsOf(p) ==
  IF p \in {"epub", "pdf"}
    THEN { <<>>, <<csvArg>> } \cup { <<f, n>> : f \in SingleFolders, n \in {nameR} }
    ELSE { <<>>, <<csvArg>> } \cup { <<csvArg, n>> : n \in {nameR} }

formatExt(p) ==
  IF p \in {"epub", "mergeEpub"} THEN <<".", "e", "p", "u", "b">>
  ELSE <<".", "p", "d", "f">>
outDirName(p) ==
  IF p \in {"epub", "mergeEpub"} THEN <<"e", "p", "u", "b">> ELSE <<"p", "d", "f">>

\* ---------------------------------------------------------------- state
VARIABLES
  prog,         \* which script runs
  args,         \* its command-line arguments
  csv,          \* the CSV file the arguments name
  pc,           \* position of the run
  exitCode,     \* process exit status once pc = "exited"
  mode,         \* "csv" or "single", from validateArguments
  entries,      \* the entries readCsvFile returned
  i,            \* 1-based index of the entry in progress
  inLoop,       \* inside the try block of a per-entry loop iteration
  imagePaths,   \* sorted images of the entry in progress
  allImages,    \* merge: the records collected so far
  started,      \* history: indexes of the entries whose processing began
  log,          \* history: outcome of each finished entry
  envFailed,    \* history: an operation of the environment has failed
  nAssemblies,  \* history: calls of createEpub / createPdf so far
  docImages,    \* image list handed to the latest assembly call
  docPath,      \* output path handed to the latest assembly call
  outDirExists, \* the epub/ (resp. pdf/) directory exists
  outFiles,     \* output path -> content of the file there
  tempDirs,     \* number of temporary working directories on disk
  tempExists,   \* the working directory of the latest build exists
  work,         \* files of that working directory
  imageList,    \* createEpub: the list copyImagesToEpub built
  buildErr,     \* createEpub: an exception is pending in the try block
  rmFailed,     \* createEpub: the removal in the finally block failed
  lastBuild,    \* "none", "running", "returned" or "threw"
  zipLog,       \* createEpubFile: the archiver passes started, with results
  pdfPages,     \* createPdf: the pages appended to the document
  copied,       \* copyImagesToEpub: the copies made, source and destination
  pages,        \* createHtmlPages: the pages written, with the image each shows
  contentOpf,   \* createContentOpf: manifest and spine of the package file
  tocNcx,       \* createTocNcx: the navigation map
  fnStep,         \* the function specifications: what has been applied so far
  fnListing,      \* a directory listing handed to readImageFiles
  fnFiles,        \* the image files readImageFiles kept
  fnSorted,       \* what sortFilesNumerically made of them
  fnLine,         \* a line handed to parseCsvLine
  fnColumns,      \* the fields parseCsvLine returned
  fnContent,      \* the text of a CSV file
  fnResult,       \* what readCsvFile made of it
  fnFolders,      \* the folder list handed to generateCSV
  fnName,         \* an output name as given by the user or the CSV file
  fnExt,          \* the extension of the target format
  fnOut           \* the output file name derived from them

vars ==
  <<prog, args, csv, pc, exitCode, mode, entries, i, inLoop, imagePaths,
    allImages, started, log, envFailed, nAssemblies, docImages, docPath,
    outDirExists, outFiles, tempDirs, tempExists, work, imageList, buildErr, rmFailed,
    lastBuild, zipLog, pdfPages, copied, pages, contentOpf, tocNcx,
    fnStep, fnListing, fnFiles, fnSorted, fnLine, fnColumns, fnContent, fnResult, fnFolders,
    fnName, fnExt, fnOut>>

\* The variables of the program runs and those of the function specifications.
runVars ==
  <<prog, args, csv, pc, exitCode, mode, entries, i, inLoop, imagePaths,
    allImages, started, log, envFailed, nAssemblies, docImages, docPath,
    outDirExists, outFiles, tempDirs, tempExists, work, imageList, buildErr, rmFailed,
    lastBuild, zipLog, pdfPages, copied, pages, contentOpf, tocNcx>>
nameVars == <<fnName, fnExt, fnOut>>
fnVars ==
  <<fnStep, fnListing, fnFiles, fnSorted, fnLine, fnColumns, fnContent, fnResult, fnFolders,
    nameVars>>

inputVars == <<prog, args, csv>>
ctrlVars == <<pc, exitCode, i, inLoop, log>>
bookVars == <<copied, pages, contentOpf, tocNcx>>
buildVars ==
  <<tempDirs, tempExists, work, imageList, buildErr, rmFailed, lastBuild, zipLog, bookVars>>

isMerge == prog \in {"mergeEpub", "mergePdf"}
isEpub == prog \in {"epub", "mergeEpub"}

noFiles == [p \in {} |-> 0]

\* The package file and the navigation map before they are written.
noOpf == [manifest |-> <<>>, spine |-> <<>>]
noNav == <<>>

\* Whether the run, given these arguments, gets as far as opening the CSV.
readsCsv(p, a) ==
  IF p \in {"epub", "pdf"} THEN Len(a) = 1 ELSE Len(a) = 2

\* The state of a run before its first statement.
RunStart ==
  /\ exitCode = 0
  /\ mode = "none"
  /\ entries = <<>>
  /\ i = 0
  /\ inLoop = FALSE
  /\ imagePaths = <<>>
  /\ allImages = <<>>
  /\ started = <<>>
  /\ log = <<>>
  /\ envFailed = FALSE
  /\ nAssemblies = 0
  /\ docImages = <<>>
  /\ docPath = <<>>
  /\ outFiles = noFiles
  /\ tempDirs = 0
  /\ tempExists = FALSE
  /\ work = <<>>
  /\ imageList = <<>>
  /\ buildErr = FALSE
  /\ rmFailed = FALSE
  /\ lastBuild = "none"
  /\ zipLog = <<>>
  /\ pdfPages = <<>>
  /\ copied = <<>>
  /\ pages = <<>>
  /\ contentOpf = noOpf
  /\ tocNcx = noNav

\* No program is run (the state of runVars in the function specifications).
RunIdle ==
  /\ prog = "epub"
  /\ args = <<>>
  /\ csv = [state |-> "missing", content |-> <<>>]
  /\ outDirExists = FALSE
  /\ pc = "idle"
  /\ RunStart

\* No output name is being normalized.
NameIdle ==
  /\ fnName = <<>>
  /\ fnExt = <<>>
  /\ fnOut = <<>>

\* No function has been applied (the state of fnVars during a program run).
FnIdle ==
  /\ fnStep = "idle"
  /\ fnListing = <<>>
  /\ fnFiles = <<>>
  /\ fnSorted = <<>>
  /\ fnLine = <<>>
  /\ fnColumns = <<>>
  /\ fnContent = <<>>
  /\ fnResult = [ok |-> FALSE, error |-> "", entries |-> <<>>]
  /\ fnFolders = <<>>
  /\ NameIdle

Init ==
  /\ prog \in Progs
  /\ args \in ArgsOf(prog)
  /\ csv \in CsvFiles
  /\ ~readsCsv(prog, args) => csv.state = "missing"
  /\ outDirExists \in BOOLEAN
  /\ pc = "start"
  /\ FnIdle
  /\ RunStart

\* ------------------------------------------------------- control transfer
\* process.exit(code), or the run function returning (status 0).
Exit(code) ==
  /\ pc' = "exited"
  /\ exitCode' = code
  /\ UNCHANGED <<i, inLoop, log>>

Goto(label) ==
  /\ pc' = label
  /\ UNCHANGED <<exitCode, i, inLoop, log>>

\* Variant: collectAllImages returns an empty list instead of throwing.
collectNeverThrows(imgs) == FALSE

\* The end of collectAllImages: it throws when no image was collected.
collectThrows(imgs) == Len(imgs) = 0

\* Variant: the status of a batch run reports the entries that failed.
loopExitCodeCountsFailures(l) ==
  IF \E k \in 1..Len(l) : l[k].result = "error" THEN 1 ELSE 0

\* The status run ends with after processCsvEntries has returned: nothing is
\* thrown and process.exit is not called, whatever the entries' outcomes l.
loopExitCode(l) == 0

\* The index the for loop gives the next iteration.
nextIndex(k) == k + 1

\* The end of one iteration of the per-entry loop (normal end, continue, or
\* the catch of the iteration), with imgs the images collected so far. After
\* the last entry processCsvEntries returns and run ends with status 0;
\* collectAllImages throws when nothing was collected and returns otherwise.
EntryEnd(result, imgs) ==
  /\ log' = Append(log, [entry |-> i, result |-> result])
  /\ IF nextIndex(i) <= Len(entries)
       THEN /\ i' = nextIndex(i)
            /\ pc' = "validate"
            /\ UNCHANGED <<exitCode, inLoop>>
       ELSE /\ i' = nextIndex(i)
            /\ inLoop' = FALSE
            /\ IF ~isMerge THEN pc' = "exited" /\ exitCode' = loopExitCode(log')
               ELSE IF collectThrows(imgs) THEN pc' = "exited" /\ exitCode' = 1
               ELSE pc' = "mkdirOut" /\ UNCHANGED exitCode

\* Variant: the catch of run prints the error and leaves the status alone.
TopLevelCatchKeepsStatus == Exit(0)

\* The catch of run: the error is printed and process.exit(1) is called.
TopLevelCatch == Exit(1)

\* Variant: the loop has no catch of its own, every exception ends the run.
ThrowLeavesLoop == TopLevelCatch

\* An exception: caught by the catch of the loop iteration when inside one,
\* by the catch of run otherwise.
Throw ==
  IF inLoop THEN EntryEnd("error", allImages) ELSE TopLevelCatch

\* ------------------------------------------------------------ the run
curName == IF mode = "single" THEN args[2] ELSE entries[i].nome
curFolder == IF mode = "single" THEN args[1] ELSE entries[i].caminho

\* Variant: the extension is appended to every name.
normalizeNameAlways(name, ext) == name \o ext

\* The output file name: the extension is appended unless the name ends in it.
normalizeName(name, ext) == IF endsWith(name, ext) THEN name ELSE name \o ext

\* Whether the output goes into the epub/ resp. pdf/ subdirectory (the single
\* mode of the PDF script resolves the name against the working directory).
usesOutDir == ~(prog = "pdf" /\ mode = "single")

\* The name the output is derived from: the entry's name in batch mode, the
\* output-name argument in single and merge mode.
outputName == IF mode = "single" \/ isMerge THEN args[2] ELSE entries[i].nome

outputPath ==
  IF usesOutDir
    THEN pathJoin(outDirName(prog), normalizeName(outputName, formatExt(prog)))
    ELSE normalizeName(outputName, formatExt(prog))

\* validateArguments, in run: too few arguments throw; the conversion scripts
\* take one argument as a CSV file and two as folder and output name; the
\* merge scripts need the CSV file and the output name.
ValidateArguments ==
  /\ pc = "start"
  /\ IF isMerge
       THEN IF Len(args) < 2 THEN TopLevelCatch /\ UNCHANGED mode
            ELSE Goto("csvAccess") /\ mode' = "csv"
       ELSE IF Len(args) < 1 THEN TopLevelCatch /\ UNCHANGED mode
            ELSE IF Len(args) = 1 THEN Goto("csvAccess") /\ mode' = "csv"
            ELSE /\ mode' = "single"
                 /\ pc' = "validate"
                 /\ i' = 1
                 /\ UNCHANGED <<exitCode, inLoop, log>>
  /\ UNCHANGED <<fnVars, inputVars, entries, imagePaths, allImages, started, envFailed,
                 nAssemblies, docImages, docPath, outDirExists, outFiles, buildVars, pdfPages>>

\* fsPromises.access(csvFile) in run: a missing file is a top-level error.
CsvAccess ==
  /\ pc = "csvAccess"
  /\ IF csv.state = "missing" THEN TopLevelCatch ELSE Goto("csvRead")
  /\ UNCHANGED <<fnVars, inputVars, mode, entries, imagePaths, allImages, started, envFailed,
                 nAssemblies, docImages, docPath, outDirExists, outFiles, buildVars, pdfPages>>

\* readCsvFile in run: a read error or a file without a valid entry is a
\* top-level error; otherwise the per-entry loop starts at the first entry.
CsvRead ==
  /\ pc = "csvRead"
  /\ LET r == readCsvFile(csv.content) IN
     IF csv.state = "unreadable" \/ ~r.ok
       THEN TopLevelCatch /\ UNCHANGED entries
       ELSE /\ entries' = r.entries
            /\ i' = 1
            /\ inLoop' = TRUE
            /\ pc' = "validate"
            /\ UNCHANGED <<exitCode, log>>
  /\ UNCHANGED <<fnVars, inputVars, mode, imagePaths, allImages, started, envFailed,
                 nAssemblies, docImages, docPath, outDirExists, outFiles, buildVars, pdfPages>>

\* Variant: the output directory is made at the start of every entry, before
\* its folder is looked at.
outDirMadeFirst == outDirExists' = TRUE

\* The start of an entry: nothing is created before the folder and its images
\* have been checked (the mkdir of the output directory comes after the
\* existence check of the images).
outDirNotYetMade == UNCHANGED outDirExists

\* validateFolder: the path must exist and be a directory.
ValidateFolder ==
  /\ pc = "validate"
  /\ started' = Append(started, i)
  /\ IF statOf(curFolder) = "directory" THEN Goto("read") ELSE Throw
  /\ outDirNotYetMade
  /\ UNCHANGED <<fnVars, inputVars, mode, entries, imagePaths, allImages, envFailed,
                 nAssemblies, docImages, docPath, outFiles, buildVars, pdfPages>>

\* The sorting method each call site names, and the methods the classes define.
sortMethodCalled(p, m) ==
  IF p = "epub" /\ m = "single" THEN "sortFilesNumericamente"
  ELSE "sortFilesNumerically"
definedMethods == {"sortFilesNumerically"}

\* What collectAllImages builds for the sorted files of entry k.
imagesInfoOf(sortedFiles, nome, caminho, k) ==
  [n \in 1..Len(sortedFiles) |->
     [path |-> pathJoin(caminho, sortedFiles[n]), filename |-> sortedFiles[n],
      folderName |-> nome, folderIndex |-> k, imageIndex |-> n,
      totalInFolder |-> Len(sortedFiles)]]

\* Variant: a folder without a supported image ends the run in every mode.
NoImagesFatal == TopLevelCatch

\* A folder without a supported image: readImageFiles of the conversion
\* scripts throws; the merge scripts return the empty list and the loop of
\* collectAllImages continues with the next entry.
NoImages ==
  IF isMerge THEN EntryEnd("skipped", allImages) ELSE Throw

\* readImageFiles, then sortFilesNumerically and the mapping to full paths.
ReadImageFiles ==
  /\ pc = "read"
  /\ \E readdirOk \in BOOLEAN :
       LET imageFiles == filterImages(listingOf(curFolder))
           sortedFiles == sortFilesNumerically(imageFiles)
       IN IF ~readdirOk
            THEN Throw /\ envFailed' = TRUE /\ UNCHANGED imagePaths
          ELSE IF imageFiles = <<>>
            THEN NoImages /\ UNCHANGED <<envFailed, imagePaths>>
          ELSE IF sortMethodCalled(prog, mode) \notin definedMethods
            THEN Throw /\ UNCHANGED <<envFailed, imagePaths>>
          ELSE /\ imagePaths' =
                    IF isMerge
                      THEN imagesInfoOf(sortedFiles, curName, curFolder, i)
                      ELSE [n \in 1..Len(sortedFiles) |->
                              pathJoin(curFolder, sortedFiles[n])]
               /\ Goto("access")
               /\ UNCHANGED envFailed
  /\ UNCHANGED <<fnVars, inputVars, mode, entries, allImages, started,
                 nAssemblies, docImages, docPath, outDirExists, outFiles, buildVars, pdfPages>>

\* A call of createEpub / createMergedEpub / createPdf / createMergedPdf with
\* the image list imgs; label is the first step of the callee.
StartAssembly(imgs, label) ==
  /\ nAssemblies' = nAssemblies + 1
  /\ docImages' = imgs
  /\ docPath' = outputPath
  /\ pc' = label
  /\ tempExists' = FALSE
  /\ work' = <<>>
  /\ imageList' = <<>>
  /\ buildErr' = FALSE
  /\ rmFailed' = FALSE
  /\ lastBuild' = "running"
  /\ zipLog' = <<>>
  /\ pdfPages' = <<>>
  /\ copied' = <<>>
  /\ pages' = <<>>
  /\ contentOpf' = noOpf
  /\ tocNcx' = noNav
  /\ UNCHANGED <<exitCode, i, inLoop, log, tempDirs>>

\* Variant: the records of a folder are put in front of the list.
pushImagesInFront(all, imagesInfo) == imagesInfo \o all

\* What collectAllImages does with the records of a folder whose files all
\* exist: allImages.push(...imagesInfo).
pushImages(all, imagesInfo) == all \o imagesInfo

\* Variant: each record is added as soon as its file was found, so the
\* records in front of a missing file stay in the list.
collectedUpToMissing(all, imagesInfo) ==
  all \o SubSeq(imagesInfo, 1, Len(imagesInfo) - 1)

\* The list collectAllImages holds after an image of the folder was found
\* missing: the throw comes before allImages.push, nothing was added.
collectedOnMissing(all, imagesInfo) == all

\* The existence check of every image (fsPromises.access in a loop); a file
\* that vanished since the listing fails the entry. Afterwards the merge
\* scripts add the folder's records to allImages, the PDF conversion script
\* calls createPdf and the EPUB conversion script goes on to create epub/.
AccessImages ==
  /\ pc = "access"
  /\ \E accessOk \in BOOLEAN :
       IF ~accessOk
         THEN /\ Throw
              /\ envFailed' = TRUE
              /\ imagePaths' = <<>>
              /\ allImages' = IF isMerge THEN collectedOnMissing(allImages, imagePaths)
                               ELSE allImages
              /\ UNCHANGED <<nAssemblies, docImages, docPath, buildVars, pdfPages>>
       ELSE IF isMerge
         THEN /\ allImages' = pushImages(allImages, imagePaths)
              /\ EntryEnd("ok", allImages')
              /\ imagePaths' = <<>>
              /\ UNCHANGED <<envFailed, nAssemblies, docImages, docPath, buildVars, pdfPages>>
       ELSE IF prog = "pdf"
         THEN /\ StartAssembly(imagePaths, "pdfBody")
              /\ UNCHANGED <<envFailed, imagePaths, allImages>>
       ELSE /\ Goto("mkdirOut")
            /\ UNCHANGED <<envFailed, imagePaths, allImages, nAssemblies, docImages, docPath,
                           buildVars, pdfPages>>
  /\ UNCHANGED <<fnVars, inputVars, mode, entries, started, outDirExists, outFiles>>

\* fsPromises.mkdir('epub' resp. 'pdf', {recursive: true}), then the call of
\* the assembler.
MkdirOut ==
  /\ pc = "mkdirOut"
  /\ \E mkdirOk \in BOOLEAN :
       IF ~mkdirOk
         THEN /\ Throw
              /\ envFailed' = TRUE
              /\ imagePaths' = <<>>
              /\ UNCHANGED <<outDirExists, nAssemblies, docImages, docPath, buildVars, pdfPages>>
         ELSE /\ outDirExists' = TRUE
              /\ StartAssembly(IF isMerge THEN allImages ELSE imagePaths,
                               IF isEpub THEN "mkTemp" ELSE "pdfBody")
              /\ UNCHANGED <<envFailed, imagePaths>>
  /\ UNCHANGED <<fnVars, inputVars, mode, entries, allImages, started, outFiles>>

\* ------------------------------------------------------- the EPUB build
fMimetype == [kind |-> "mimetype", n |-> 0, ext |-> <<>>]
fContainer == [kind |-> "META-INF/container.xml", n |-> 0, ext |-> <<>>]
fContentOpf == [kind |-> "OEBPS/content.opf", n |-> 0, ext |-> <<>>]
fTocNcx == [kind |-> "OEBPS/toc.ncx", n |-> 0, ext |-> <<>>]
fImage(n, ext) == [kind |-> "OEBPS/images/image_", n |-> n, ext |-> ext]
fPage(n) == [kind |-> "OEBPS/text/page_", n |-> n, ext |-> <<".", "x", "h", "t", "m", "l">>]

\* The last segment of a path, which is what path.extname looks at.
lastSegment(p) == SubSeq(p, lastIndexOf(p, "/") + 1, Len(p))

pathOf(img) == IF isMerge THEN img.path ELSE img

mediaTypeOf(ext) ==
  CASE ext = <<".", "p", "n", "g">> -> "image/png"
    [] ext = <<".", "g", "i", "f">> -> "image/gif"
    [] ext = <<".", "b", "m", "p">> -> "image/bmp"
    [] ext = <<".", "w", "e", "b", "p">> -> "image/webp"
    [] OTHER -> "image/jpeg"

\* Variant: ids and page numbers are counted from 0.
copiedImageListFromZero(imgs) ==
  [k \in 1..Len(imgs) |->
     LET ext == toLowerCase(extname(lastSegment(pathOf(imgs[k]))))
         base == [filename |-> fImage(k - 1, ext), id |-> k - 1,
                  mediaType |-> mediaTypeOf(ext), pageNumber |-> k - 1]
     IN IF isMerge THEN base @@ [originalInfo |-> imgs[k]] ELSE base]

\* The list copyImagesToEpub returns (the merge script keeps originalInfo).
copiedImageList(imgs) ==
  [k \in 1..Len(imgs) |->
     LET ext == toLowerCase(extname(lastSegment(pathOf(imgs[k]))))
         base == [filename |-> fImage(k, ext), id |-> k,
                  mediaType |-> mediaTypeOf(ext), pageNumber |-> k]
     IN IF isMerge THEN base @@ [originalInfo |-> imgs[k]] ELSE base]

\* The copies copyImagesToEpub makes: image k of the list goes to the k-th
\* sequential name, with the lowercased extension of the source.
copiesMade(imgs) ==
  [k \in 1..Len(imgs) |->
     [src |-> pathOf(imgs[k]),
      dest |-> fImage(k, toLowerCase(extname(lastSegment(pathOf(imgs[k])))))]]

\* The pages createHtmlPages writes: page_<pageNumber>.xhtml, showing
\* ../images/<filename> of the same record.
pagesWritten(list) ==
  [k \in 1..Len(list) |-> [file |-> fPage(list[k].pageNumber), img |-> list[k].filename]]

\* createContentOpf: for each record of the list, in list order, a manifest
\* item for the image and one for the page, and an itemref in the spine.
RECURSIVE manifestOf(_)
manifestOf(list) ==
  IF list = <<>> THEN <<>>
  ELSE << [id |-> <<"img", Head(list).id>>, href |-> Head(list).filename,
           mediaType |-> Head(list).mediaType],
          [id |-> <<"page", Head(list).pageNumber>>, href |-> Head(list).htmlFile,
           mediaType |-> "application/xhtml+xml"] >> \o manifestOf(Tail(list))

packageOf(list) ==
  [manifest |-> manifestOf(list),
   spine |-> [k \in 1..Len(list) |-> <<"page", list[k].pageNumber>>]]

\* createTocNcx of the conversion script: one navigation point per record.
navMap(list) ==
  [k \in 1..Len(list) |->
     [id |-> <<"navpoint", list[k].pageNumber>>, playOrder |-> list[k].pageNumber,
      label |-> list[k].pageNumber, src |-> list[k].htmlFile, children |-> <<>>]]

\* createTocNcx of the merge script: the loop over the list from record k on,
\* with currentFolder the name of the folder of the latest folder point (the
\* empty string at the start), folderNavPoint and pageOrder the counters and
\* navPoints the points written so far. A record whose folder name is not
\* currentFolder opens a folder point that holds a nested point for every
\* record of the list with that folder name; pageOrder advances once per
\* nested point and once more after the folder point.
RECURSIVE mergedNavScan(_, _, _, _, _, _)
mergedNavScan(list, k, currentFolder, folderNavPoint, pageOrder, navPoints) ==
  IF k > Len(list) THEN navPoints
  ELSE
    LET image == list[k]
        folderInfo == image.originalInfo
    IN IF folderInfo.folderName = currentFolder
         THEN mergedNavScan(list, k + 1, currentFolder, folderNavPoint, pageOrder,
                            navPoints)
         ELSE
           LET folderImages ==
                 SelectSeq(list, LAMBDA img :
                                   img.originalInfo.folderName = folderInfo.folderName)
               nested ==
                 [j \in 1..Len(folderImages) |->
                    [id |-> <<"page", folderImages[j].pageNumber>>,
                     playOrder |-> pageOrder + j,
                     label |-> folderImages[j].originalInfo.imageIndex,
                     src |-> folderImages[j].htmlFile]]
               point ==
                 [id |-> <<"folder", folderNavPoint>>, playOrder |-> pageOrder,
                  label |-> folderInfo.folderName, src |-> image.htmlFile,
                  children |-> nested]
           IN mergedNavScan(list, k + 1, folderInfo.folderName, folderNavPoint + 1,
                            pageOrder + Len(folderImages) + 1, Append(navPoints, point))

mergedNavMap(list) == mergedNavScan(list, 1, <<>>, 1, 1, <<>>)

\* A step of the try block of createEpub has thrown: the finally block runs.
BuildFails ==
  /\ buildErr' = TRUE
  /\ envFailed' = TRUE
  /\ Goto("cleanup")

buildFrame ==
  <<inputVars, mode, entries, imagePaths, allImages, started, nAssemblies,
    docImages, docPath, outDirExists, pdfPages>>

\* fsPromises.mkdir(tempDir, {recursive: true})
MkTemp ==
  /\ pc = "mkTemp"
  /\ \E ok \in BOOLEAN :
       IF ok THEN /\ tempExists' = TRUE
                  /\ tempDirs' = tempDirs + 1
                  /\ Goto("structure")
                  /\ UNCHANGED <<buildErr, envFailed>>
       ELSE BuildFails /\ UNCHANGED <<tempExists, tempDirs>>
  /\ UNCHANGED <<fnVars, bookVars, buildFrame, outFiles, work, imageList, rmFailed, lastBuild, zipLog>>

\* createEpubStructure: the directories, mimetype and META-INF/container.xml
CreateEpubStructure ==
  /\ pc = "structure"
  /\ \E ok \in BOOLEAN :
       IF ok THEN /\ work' = <<fMimetype, fContainer>>
                  /\ Goto("copy")
                  /\ UNCHANGED <<buildErr, envFailed>>
       ELSE BuildFails /\ UNCHANGED work
  /\ UNCHANGED <<fnVars, bookVars, buildFrame, outFiles, tempDirs, tempExists, imageList, rmFailed,
                 lastBuild, zipLog>>

\* copyImagesToEpub: image k of the list is copied as image_<k><ext>
CopyImagesToEpub ==
  /\ pc = "copy"
  /\ \E ok \in BOOLEAN :
       IF ok THEN /\ imageList' = copiedImageList(docImages)
                  /\ copied' = copiesMade(docImages)
                  /\ work' = work \o [k \in 1..Len(docImages) |-> imageList'[k].filename]
                  /\ Goto("html")
                  /\ UNCHANGED <<buildErr, envFailed>>
       ELSE BuildFails /\ UNCHANGED <<work, imageList, copied>>
  /\ UNCHANGED <<fnVars, pages, contentOpf, tocNcx, buildFrame, outFiles, tempDirs, tempExists, rmFailed, lastBuild, zipLog>>

\* createHtmlPages: one XHTML page per image, recorded as image.htmlFile
CreateHtmlPages ==
  /\ pc = "html"
  /\ \E ok \in BOOLEAN :
       IF ok THEN /\ imageList' = [k \in 1..Len(imageList) |->
                       imageList[k] @@ [htmlFile |-> fPage(imageList[k].pageNumber)]]
                  /\ pages' = pagesWritten(imageList)
                  /\ work' = work \o [k \in 1..Len(imageList) |-> imageList'[k].htmlFile]
                  /\ Goto("opf")
                  /\ UNCHANGED <<buildErr, envFailed>>
       ELSE BuildFails /\ UNCHANGED <<work, imageList, pages>>
  /\ UNCHANGED <<fnVars, copied, contentOpf, tocNcx, buildFrame, outFiles, tempDirs, tempExists, rmFailed, lastBuild, zipLog>>

\* createContentOpf
CreateContentOpf ==
  /\ pc = "opf"
  /\ \E ok \in BOOLEAN :
       IF ok THEN /\ work' = Append(work, fContentOpf)
                  /\ contentOpf' = packageOf(imageList)
                  /\ Goto("ncx")
                  /\ UNCHANGED <<buildErr, envFailed>>
       ELSE BuildFails /\ UNCHANGED <<work, contentOpf>>
  /\ UNCHANGED <<fnVars, copied, pages, tocNcx, buildFrame, outFiles, tempDirs, tempExists, imageList, rmFailed,
                 lastBuild, zipLog>>

\* createTocNcx
CreateTocNcx ==
  /\ pc = "ncx"
  /\ \E ok \in BOOLEAN :
       IF ok THEN /\ work' = Append(work, fTocNcx)
                  /\ tocNcx' = IF isMerge THEN mergedNavMap(imageList) ELSE navMap(imageList)
                  /\ Goto("zip1")
                  /\ UNCHANGED <<buildErr, envFailed>>
       ELSE BuildFails /\ UNCHANGED <<work, tocNcx>>
  /\ UNCHANGED <<fnVars, copied, pages, contentOpf, buildFrame, outFiles, tempDirs, tempExists, imageList, rmFailed,
                 lastBuild, zipLog>>

\* ------------------------------------------------------------ the archiver
\* How a pass of the archiver ends: exit code 0, another exit code, or the
\* process could not be spawned ('error' event).
ZipResults == {"ok", "nonzero", "spawnError"}

archiveAt(path) == IF path \in DOMAIN outFiles THEN outFiles[path] ELSE <<>>

entryNames(archive) == { archive[k].name : k \in 1..Len(archive) }
seqRange(q) == { q[k] : k \in 1..Len(q) }

\* `zip <archive> <names>`: an entry of the archive whose file is named again
\* is replaced where it stands, at the compression level of this pass; the
\* files not yet in the archive are appended; the other entries are kept.
zipUpdate(archive, names, level, pass) ==
  LET replaced == [k \in 1..Len(archive) |->
                     IF archive[k].name \in seqRange(names)
                       THEN [name |-> archive[k].name, level |-> level, pass |-> pass]
                       ELSE archive[k]]
      fresh == SelectSeq(names, LAMBDA f : f \notin entryNames(archive))
  IN replaced \o [k \in 1..Len(fresh) |-> [name |-> fresh[k], level |-> level, pass |-> pass]]

\* The files the two spawn calls of createEpubFile name: 'mimetype' alone with
\* -0, then '.' with -r (every file of the working directory) with -9.
firstPassNames(files) == <<fMimetype>>
secondPassNames(files) == files
firstPassLevel == 0
secondPassLevel == 9

\* Variant: the second pass is spawned whatever the first pass reported.
startsSecondPassAlways(result) == TRUE

\* The 'close' handler of the first pass: a non-zero code rejects and returns,
\* code 0 spawns the second pass.
startsSecondPass(result) == result = "ok"

\* The 'close' handler of the second pass resolves on code 0.
packagingResolves(result) == result = "ok"

\* createEpubFile, first pass: zip -0Xq outputPath mimetype
ZipFirstPass ==
  /\ pc = "zip1"
  /\ \E r \in ZipResults :
       /\ zipLog' = Append(zipLog, [pass |-> 1, result |-> r])
       /\ outFiles' =
            IF r = "ok"
              THEN (docPath :> zipUpdate(archiveAt(docPath), firstPassNames(work),
                                            firstPassLevel, 1)) @@ outFiles
              ELSE outFiles
       /\ IF startsSecondPass(r)
            THEN Goto("zip2") /\ UNCHANGED <<buildErr, envFailed>>
            ELSE BuildFails
  /\ UNCHANGED <<fnVars, bookVars, buildFrame, tempDirs, tempExists, work, imageList, rmFailed, lastBuild>>

\* createEpubFile, second pass: zip -Xr9Dq outputPath .
ZipSecondPass ==
  /\ pc = "zip2"
  /\ \E r \in ZipResults :
       /\ zipLog' = Append(zipLog, [pass |-> 2, result |-> r])
       /\ outFiles' =
            IF r = "ok"
              THEN (docPath :> zipUpdate(archiveAt(docPath), secondPassNames(work),
                                            secondPassLevel, 2)) @@ outFiles
              ELSE outFiles
       /\ IF packagingResolves(r)
            THEN Goto("cleanup") /\ UNCHANGED <<buildErr, envFailed>>
            ELSE BuildFails
  /\ UNCHANGED <<fnVars, bookVars, buildFrame, tempDirs, tempExists, work, imageList, rmFailed, lastBuild>>

\* The assembler returns to its caller: the loop iteration ends normally, or
\* (single and merge mode) run prints its success message and ends.
AssemblyReturns ==
  IF inLoop THEN EntryEnd("ok", allImages) ELSE Exit(0)

\* What the finally block of createEpub does with the outcome of the try
\* block: the pending exception, if any, propagates after the cleanup.
afterFinally(pending) == pending

\* Variant: createEpub has no finally block, nothing is removed.
removesTempNever(rmOk, pending) == FALSE

\* Variant: the removal sits at the end of the try block, not in a finally.
removesTempOnSuccessOnly(rmOk, pending) == rmOk /\ ~pending

\* Whether the working directory is removed: the removal is attempted on
\* every exit of the try block, whatever is pending.
removesTemp(rmOk, pending) == rmOk

\* The finally block of createEpub: fsPromises.rm(tempDir, {recursive, force});
\* a failure of the removal is caught and logged.
Cleanup ==
  /\ pc = "cleanup"
  /\ \E rmOk \in BOOLEAN :
       /\ (~rmOk => tempExists)
       /\ IF removesTemp(rmOk, buildErr)
            THEN /\ tempExists' = FALSE
                 /\ tempDirs' = IF tempExists THEN tempDirs - 1 ELSE tempDirs
                 /\ work' = <<>>
                 /\ UNCHANGED rmFailed
            ELSE /\ rmFailed' = (rmFailed \/ ~rmOk)
                 /\ UNCHANGED <<tempExists, tempDirs, work>>
       /\ lastBuild' = IF afterFinally(buildErr) THEN "threw" ELSE "returned"
       /\ IF afterFinally(buildErr) THEN Throw ELSE AssemblyReturns
  /\ imagePaths' = <<>>
  /\ UNCHANGED <<fnVars, bookVars, inputVars, mode, entries, allImages, started, envFailed,
                 nAssemblies, docImages, docPath, outDirExists, outFiles, imageList, buildErr,
                 zipLog, pdfPages>>

\* -------------------------------------------------------- the PDF build
\* The directory the PDF is written into exists.
pdfDirOk == ~usesOutDir \/ outDirExists

\* Variant: the loop has no catch of its own and stops at the first image
\* whose placement throws.
pagesAddedUntilFailure(imgs, failed) ==
  LET firstFailed == IF failed = {} THEN Len(imgs) ELSE CHOOSE k \in failed : \A j \in failed : k <= j
  IN [k \in 1..firstFailed |-> [image |-> pathOf(imgs[k]), placed |-> k \notin failed]]

\* The forEach of createPdf / createMergedPdf: doc.addPage() for each image in
\* list order, then doc.image; for the images of the set failed doc.image
\* throws, which the catch inside the loop logs, and the page stays.
pagesAdded(imgs, failed) ==
  [k \in 1..Len(imgs) |-> [image |-> pathOf(imgs[k]), placed |-> k \notin failed]]

\* Variant: the promise is resolved whichever event ends the stream.
streamResolvesAlways(event) == TRUE

\* The handlers of the write stream: 'finish' resolves, 'error' rejects.
streamResolves(event) == event = "finish"

\* The synchronous body of createPdf / createMergedPdf: the document is piped
\* into a write stream on outputPath, then for each image a page is added
\* and the image placed on it (a placement that throws is caught and
\* logged), then doc.end() is called.
CreatePdfBody ==
  /\ pc = "pdfBody"
  /\ \E failed \in SUBSET (1..Len(docImages)) :
       /\ Cardinality(failed) <= MaxPlaceFail
       /\ pdfPages' = pagesAdded(docImages, failed)
       /\ envFailed' = (envFailed \/ failed # {})
  /\ Goto("pdfStream")
  /\ UNCHANGED <<fnVars, inputVars, mode, entries, imagePaths, allImages, started, nAssemblies,
                 docImages, docPath, outDirExists, outFiles, buildVars>>

\* The write stream ends: 'finish' resolves the promise of createPdf, 'error'
\* rejects it. Without the directory the stream can only fail.
PdfStreamEnds ==
  /\ pc = "pdfStream"
  /\ \E event \in {"finish", "error"} :
       /\ (event = "finish" => pdfDirOk)
       /\ outFiles' =
            IF event = "finish"
              THEN (docPath :> [pages |-> pdfPages, complete |-> TRUE]) @@ outFiles
            ELSE IF pdfDirOk
              THEN (docPath :> [pages |-> <<>>, complete |-> FALSE]) @@ outFiles
            ELSE outFiles
       /\ envFailed' = (envFailed \/ event = "error")
       /\ IF streamResolves(event)
            THEN lastBuild' = "returned" /\ AssemblyReturns
            ELSE lastBuild' = "threw" /\ Throw
  /\ imagePaths' = <<>>
  /\ UNCHANGED <<fnVars, bookVars, inputVars, mode, entries, allImages, started, nAssemblies,
                 docImages, docPath, outDirExists, tempDirs, tempExists, work, imageList,
                 buildErr, rmFailed, zipLog, pdfPages>>

\* ------------------------------------------------------- specification
Next ==
  \/ ValidateArguments
  \/ CsvAccess
  \/ CsvRead
  \/ ValidateFolder
  \/ ReadImageFiles
  \/ AccessImages
  \/ MkdirOut
  \/ MkTemp
  \/ CreateEpubStructure
  \/ CopyImagesToEpub
  \/ CreateHtmlPages
  \/ CreateContentOpf
  \/ CreateTocNcx
  \/ ZipFirstPass
  \/ ZipSecondPass
  \/ Cleanup
  \/ CreatePdfBody
  \/ PdfStreamEnds

Spec == Init /\ [][Next]_vars

\* --------------------------------------------------------------- claims
\* The batch mode of the conversion scripts (one document per CSV entry).
isBatch == prog \in {"epub", "pdf"} /\ mode = "csv"

\* A directory with at least one supported image, resp. with none.
goodFolder(folderPath) ==
  statOf(folderPath) = "directory" /\ filterImages(listingOf(folderPath)) # <<>>
emptyFolder(folderPath) ==
  statOf(folderPath) = "directory" /\ filterImages(listingOf(folderPath)) = <<>>

\* The CSV file is missing, unreadable or holds no valid entry.
csvTopLevelFailure ==
  csv.state \in {"missing", "unreadable"} \/ ~readCsvFile(csv.content).ok

\* C1: in batch mode the entries are attempted one by one in CSV order, each
\* exactly once, and the run ends only after the last entry was attempted,
\* whichever entries have failed.
C1_EveryEntryAttemptedOnceInOrder ==
  isBatch =>
    /\ Len(started) <= Len(entries)
    /\ \A k \in 1..Len(started) : started[k] = k
    /\ Len(log) <= Len(started) /\ Len(started) <= Len(log) + 1
    /\ \A k \in 1..Len(log) : log[k].entry = k
    /\ (pc = "exited" /\ entries # <<>>) =>
         (Len(started) = Len(entries) /\ Len(log) = Len(entries))

\* A batch run that ended after its first entry failed and its second succeeded.
C1_Witness ==
  /\ isBatch /\ pc = "exited" /\ Len(entries) = 2
  /\ started = <<1, 2>>
  /\ Len(log) = 2 /\ log[1].result = "error" /\ log[2].result = "ok"

\* C2: in batch mode a run that has read at least one entry from the CSV ends
\* with status 0; a run that ends with status 1 failed before the loop, with
\* no entry read and none attempted.
C2_BatchExitsOneOnlyBeforeLoop ==
  isBatch =>
    /\ (pc = "exited" /\ entries # <<>>) => exitCode = 0
    /\ (pc = "exited" /\ exitCode = 1) =>
         (entries = <<>> /\ started = <<>> /\ log = <<>>)

\* A batch run whose two entries both failed and which ended with status 0.
C2_Witness ==
  /\ isBatch /\ pc = "exited" /\ exitCode = 0 /\ Len(entries) = 2
  /\ Len(log) = 2 /\ \A k \in 1..2 : log[k].result = "error"

\* C3: in the CSV modes of all four scripts, when the CSV file is missing,
\* unreadable or without a valid entry, the run goes from the CSV checks
\* straight to exit status 1: no entry is read, no folder is looked at, no
\* working directory is created, no document is assembled or written.
C3_TopLevelFailureBeforeAnyEntry ==
  (mode = "csv" /\ csvTopLevelFailure) =>
    /\ pc \in {"csvAccess", "csvRead", "exited"}
    /\ (pc = "exited" => exitCode = 1)
    /\ entries = <<>> /\ started = <<>> /\ log = <<>>
    /\ nAssemblies = 0 /\ tempDirs = 0 /\ outFiles = noFiles

\* A merge run over a readable, non-empty CSV file without a valid entry,
\* ended with status 1.
C3_Witness ==
  /\ isMerge /\ mode = "csv" /\ csv.state = "readable" /\ Len(csv.content) > 0
  /\ ~readCsvFile(csv.content).ok
  /\ pc = "exited" /\ exitCode = 1

\* C4: the single-folder mode of the EPUB conversion script, given a
\* directory with at least one supported image and no failure of the file
\* system or of the archiver, ends with status 0 and the EPUB written.
C4_SingleFolderEpubSucceeds ==
  (prog = "epub" /\ mode = "single" /\ goodFolder(args[1]) /\ pc = "exited"
     /\ ~envFailed)
    => (exitCode = 0 /\ nAssemblies = 1 /\ docPath \in DOMAIN outFiles)

\* The records of allImages that come from entry k, and the file names of a
\* list of records.
folderImages(k) == SelectSeq(allImages, LAMBDA r : r.folderIndex = k)
fileNames(q) == [n \in 1..Len(q) |-> q[n].filename]

\* C5: in merge mode the collected list holds the folders in CSV order, each
\* included folder's supported images in that folder's sorted order and
\* nothing of the other folders; the assembler is handed this list, and page
\* k of the merged document is made from image k of it.
C5_MergedListIsConcatenationInCsvOrder ==
  isMerge =>
    /\ \A a, b \in 1..Len(allImages) :
         a < b => allImages[a].folderIndex <= allImages[b].folderIndex
    /\ \A a \in 1..Len(allImages) :
         /\ allImages[a].folderIndex \in 1..Len(log)
         /\ allImages[a].path =
              pathJoin(entries[allImages[a].folderIndex].caminho, allImages[a].filename)
    /\ \A k \in 1..Len(log) :
         fileNames(folderImages(k)) =
           IF log[k].result = "ok"
             THEN sortFilesNumerically(filterImages(listingOf(entries[k].caminho)))
             ELSE <<>>
    /\ \A a \in 1..(Len(allImages) - 1) :
         allImages[a].folderIndex = allImages[a + 1].folderIndex =>
           compareFiles(allImages[a].filename, allImages[a + 1].filename) <= 0
    /\ nAssemblies = 1 => (docImages = allImages /\ Len(log) = Len(entries))
    /\ pdfPages # <<>> =>
         /\ Len(pdfPages) = Len(allImages)
         /\ \A k \in 1..Len(pdfPages) : pdfPages[k].image = allImages[k].path
    /\ imageList # <<>> =>
         /\ Len(imageList) = Len(allImages)
         /\ \A k \in 1..Len(imageList) :
              imageList[k].pageNumber = k /\ imageList[k].originalInfo = allImages[k]
    /\ (prog = "mergePdf" /\ lastBuild = "returned") =>
         /\ Len(outFiles[docPath].pages) = Len(allImages)
         /\ \A k \in 1..Len(allImages) :
              outFiles[docPath].pages[k].image = allImages[k].path

\* A merge run over two folders with images, ended with status 0 and the
\* five images of both in the document.
C5_Witness ==
  /\ isMerge /\ pc = "exited" /\ exitCode = 0 /\ Len(entries) = 2
  /\ Len(allImages) = 5
  /\ allImages[1].folderIndex = 1 /\ allImages[5].folderIndex = 2
  /\ (Len(pdfPages) = 5 \/ Len(imageList) = 5)

\* C6 as stated: in merge mode every run that got past the CSV checks, with
\* no failure of the environment, visits all entries and then assembles
\* exactly one document from the collected list.
C6_ExactlyOneDocumentAssembled ==
  (isMerge /\ pc = "exited" /\ entries # <<>> /\ ~envFailed) =>
    (Len(log) = Len(entries) /\ nAssemblies = 1 /\ docImages = allImages)

\* C6, amended: in merge mode folders without images and folders that fail
\* validation are skipped and the loop goes on to the last entry; at most one
\* document is assembled, after all entries were visited and from the whole
\* non-empty collected list; a run that collected an image and met no failure
\* of the environment assembles exactly one and ends with status 0, a run
\* that collected none assembles nothing and ends with status 1.
C6_OneDocumentUnlessNothingCollected ==
  isMerge =>
    /\ nAssemblies <= 1
    /\ (pc = "exited" /\ entries # <<>>) => Len(log) = Len(entries)
    /\ \A k \in 1..Len(log) :
         ~goodFolder(entries[k].caminho) => log[k].result \in {"skipped", "error"}
    /\ nAssemblies = 1 =>
         (Len(log) = Len(entries) /\ docImages = allImages /\ allImages # <<>>)
    /\ (pc = "exited" /\ entries # <<>> /\ allImages # <<>> /\ ~envFailed) =>
         (nAssemblies = 1 /\ exitCode = 0)
    /\ (pc = "exited" /\ entries # <<>> /\ allImages = <<>>) =>
         (nAssemblies = 0 /\ exitCode = 1)

\* A merge run whose two folders were both skipped (one empty, one missing):
\* nothing was assembled and the status is 1.
C6_Witness ==
  /\ isMerge /\ pc = "exited" /\ exitCode = 1 /\ ~envFailed
  /\ Len(entries) = 2 /\ Len(log) = 2 /\ nAssemblies = 0
  /\ log[1].result = "skipped" /\ log[2].result = "error"

\* C7: a directory without a supported image ends a single-folder run with
\* status 1 and nothing assembled or written; as a CSV entry it is passed
\* over (with an error in batch mode, silently skipped in merge mode), the
\* loop reaches the last entry, and when another entry succeeded the run
\* ends with status 0 (in merge mode: provided the merged document itself
\* could be created and assembled).
C7_EmptyFolderFatalOnlyInSingleMode ==
  /\ (mode = "single" /\ emptyFolder(args[1]) /\ pc = "exited") =>
       (exitCode = 1 /\ nAssemblies = 0 /\ outFiles = noFiles)
  /\ mode = "csv" =>
       \A k \in 1..Len(log) :
         emptyFolder(entries[k].caminho) =>
           /\ log[k].result # "ok"
           /\ ~envFailed => log[k].result = (IF isMerge THEN "skipped" ELSE "error")
           /\ pc = "exited" => Len(log) = Len(entries)
           /\ (pc = "exited" /\ \E j \in 1..Len(log) : log[j].result = "ok") =>
                \/ exitCode = 0
                \/ isMerge /\ (lastBuild = "threw" \/ nAssemblies = 0)

\* A merge run whose first folder has no image and was skipped, whose second
\* folder was collected, ended with status 0.
C7_Witness ==
  /\ isMerge /\ pc = "exited" /\ exitCode = 0 /\ Len(entries) = 2
  /\ emptyFolder(entries[1].caminho)
  /\ log[1].result = "skipped" /\ log[2].result = "ok"

\* C8: when a call of createEpub / createMergedEpub has ended, the working
\* directory is gone unless its removal itself failed, and the call threw
\* exactly when a step of the build failed, whether or not the removal did.
C8_TempDirRemovedWhateverTheOutcome ==
  (isEpub /\ lastBuild \in {"returned", "threw"}) =>
    /\ tempExists => rmFailed
    /\ ~tempExists => work = <<>>
    /\ (lastBuild = "threw") = buildErr

\* An EPUB build whose second archiver pass failed: the call threw and the
\* working directory has been removed.
C8_Witness ==
  /\ isEpub /\ lastBuild = "threw"
  /\ Len(zipLog) = 2 /\ zipLog[2].result # "ok"
  /\ ~tempExists /\ ~rmFailed /\ tempDirs = 0

\* C9: createEpubFile starts at most two archiver passes, the first then the
\* second; the second is started only after the first ended with code 0; a
\* first pass with another code or a spawn error fails the packaging without
\* a second pass; the build returns only after the second ended with code 0.
C9_TwoPassesInOrder ==
  isEpub =>
    /\ Len(zipLog) <= 2
    /\ \A k \in 1..Len(zipLog) : zipLog[k].pass = k
    /\ Len(zipLog) = 2 => zipLog[1].result = "ok"
    /\ pc = "zip2" => (Len(zipLog) = 1 /\ zipLog[1].result = "ok")
    /\ (Len(zipLog) >= 1 /\ zipLog[Len(zipLog)].result # "ok") =>
         (buildErr /\ pc \notin {"zip1", "zip2"})
    /\ lastBuild = "returned" =>
         (Len(zipLog) = 2 /\ zipLog[2].result = "ok" /\ ~buildErr)

\* A build whose first pass could not be spawned: no second pass, the call threw.
C9_Witness ==
  /\ isEpub /\ lastBuild = "threw"
  /\ Len(zipLog) = 1 /\ zipLog[1].result = "spawnError"

\* C10: in the archive a successful build leaves, mimetype is the first
\* entry, written with level 0 by the first pass and by no other, and it
\* occurs once.
C10_MimetypeStoredOnlyByFirstPass ==
  (isEpub /\ lastBuild = "returned") =>
    LET archive == archiveAt(docPath) IN
      /\ archive # <<>>
      /\ archive[1] = [name |-> fMimetype, level |-> firstPassLevel, pass |-> 1]
      /\ \A k \in 2..Len(archive) : archive[k].name # fMimetype

\* The PDF scripts.
isPdf == prog \in {"pdf", "mergePdf"}

\* C11: whichever images fail to be placed, once the body of createPdf /
\* createMergedPdf has run the document holds exactly one page per image of
\* the list, page k for image k, the pages of the failed images included;
\* and when the stream then finishes the call returns with all these pages
\* written.
C11_OnePagePerImageDespiteFailures ==
  (isPdf /\ nAssemblies > 0 /\ pc # "pdfBody") =>
    /\ Len(pdfPages) = Len(docImages)
    /\ \A k \in 1..Len(pdfPages) : pdfPages[k].image = pathOf(docImages[k])
    /\ lastBuild = "returned" =>
         (docPath \in DOMAIN outFiles /\ outFiles[docPath].pages = pdfPages)

\* A PDF of at least three pages, written completely, whose first image
\* could not be placed while the second was.
C11_Witness ==
  /\ isPdf /\ lastBuild = "returned"
  /\ Len(pdfPages) >= 3 /\ ~pdfPages[1].placed /\ pdfPages[2].placed
  /\ outFiles[docPath].complete

\* C12: while the write stream of a PDF has not ended the call has neither
\* returned nor thrown and, in batch mode, the following entry has not been
\* started; the call returns only with the 'finish' event (the file is
\* complete), and a stream error makes it throw.
C12_CompletionOnlyOnFinish ==
  isPdf =>
    /\ pc = "pdfStream" =>
         /\ lastBuild = "running"
         /\ mode = "csv" /\ ~isMerge =>
              (Len(started) = i /\ Len(log) = i - 1 /\ started[i] = i)
    /\ lastBuild = "returned" =>
         (docPath \in DOMAIN outFiles /\ outFiles[docPath].complete)
    /\ lastBuild = "threw" =>
         (docPath \in DOMAIN outFiles => ~outFiles[docPath].complete)

\* A batch run of the PDF script whose first document ended with a stream
\* error and whose second was written.
C12_Witness ==
  /\ prog = "pdf" /\ mode = "csv" /\ pc = "exited" /\ nAssemblies = 2
  /\ Len(log) = 2 /\ log[1].result = "error" /\ log[2].result = "ok"
  /\ lastBuild = "returned"

\* ----------------------------------------- scanning and sorting a listing
\* The names a directory listing of the model is made of.
FilePool ==
  { <<"1", ".", "j", "p", "g">>, <<"2", ".", "P", "N", "G">>,
    <<"1", "0", ".", "w", "e", "b", "p">>, <<"9", ".", "j", "p", "g">>,
    <<"1", ".", "p", "n", "g">>, <<"+", "9", ".", "j", "p", "g">>,
    <<"+", "a", ".", "j", "p", "g">>, <<"a", ".", "p", "n", "g">>,
    <<"r", ".", "t", "x", "t">>, <<".", "p", "n", "g">> }

\* The listings: the names of a directory are pairwise different and come in
\* any order.
Listings ==
  { q \in UNION { [1..n -> FilePool] : n \in 0..MaxFiles } :
      \A a, b \in 1..Len(q) : a # b => q[a] # q[b] }

SortInit ==
  /\ RunIdle
  /\ fnStep = "listed"
  /\ fnListing \in Listings
  /\ fnFiles = <<>>
  /\ fnSorted = <<>>
  /\ fnLine = <<>>
  /\ fnColumns = <<>>
  /\ fnContent = <<>>
  /\ fnResult = [ok |-> FALSE, error |-> "", entries |-> <<>>]
  /\ fnFolders = <<>>
  /\ NameIdle

\* readImageFiles on the listing readdir returned.
FilterListing ==
  /\ fnStep = "listed"
  /\ fnFiles' = filterImages(fnListing)
  /\ fnStep' = "filtered"
  /\ UNCHANGED <<runVars, fnListing, fnSorted, fnLine, fnColumns, fnContent, fnResult,
                 fnFolders, nameVars>>

\* sortFilesNumerically on the image files of a folder that has some.
SortFiles ==
  /\ fnStep = "filtered"
  /\ fnFiles # <<>>
  /\ fnSorted' = sortFilesNumerically(fnFiles)
  /\ fnStep' = "sorted"
  /\ UNCHANGED <<runVars, fnListing, fnFiles, fnLine, fnColumns, fnContent, fnResult,
                 fnFolders, nameVars>>

SortNext ==
  \/ FilterListing
  \/ SortFiles

SortSpec == SortInit /\ [][SortNext]_vars

\* The number the comparator reads from a file name, and whether all names
\* of a list have one.
stemValue(f) == parseInt(basename(f, extname(f)))
allNumeric(fs) == \A k \in 1..Len(fs) : ~stemValue(fs[k]).nan

\* C13 as stated: a list whose stems all parse as integers is sorted into
\* strictly ascending numeric order of the stems.
C13_StrictlyAscending ==
  (fnStep = "sorted" /\ allNumeric(fnFiles)) =>
    \A k \in 1..(Len(fnSorted) - 1) :
      stemValue(fnSorted[k]).val < stemValue(fnSorted[k + 1]).val

\* C13, amended: a list whose stems all parse as integers is sorted, whatever
\* its input order, into the same files in non-decreasing numeric order of
\* the stems, strictly ascending between files whose stems differ in value;
\* files with stems of equal value stay in their input order.
C13_NumericOrderNonDecreasing ==
  (fnStep = "sorted" /\ allNumeric(fnFiles)) =>
    /\ Len(fnSorted) = Len(fnFiles)
    /\ seqRange(fnSorted) = seqRange(fnFiles)
    /\ \A k \in 1..(Len(fnSorted) - 1) :
         stemValue(fnSorted[k]).val <= stemValue(fnSorted[k + 1]).val
    /\ \A a, b \in 1..Len(fnFiles) :
         (a < b /\ stemValue(fnFiles[a]).val = stemValue(fnFiles[b]).val) =>
           \E c, d \in 1..Len(fnSorted) :
             c < d /\ fnSorted[c] = fnFiles[a] /\ fnSorted[d] = fnFiles[b]

\* The listing 10.webp, 9.jpg, 2.PNG, 1.png sorted into 1.png, 2.PNG, 9.jpg,
\* 10.webp.
C13_Witness ==
  /\ fnStep = "sorted"
  /\ fnFiles = << <<"1", "0", ".", "w", "e", "b", "p">>, <<"9", ".", "j", "p", "g">>,
                  <<"2", ".", "P", "N", "G">>, <<"1", ".", "p", "n", "g">> >>
  /\ fnSorted = << <<"1", ".", "p", "n", "g">>, <<"2", ".", "P", "N", "G">>,
                   <<"9", ".", "j", "p", "g">>, <<"1", "0", ".", "w", "e", "b", "p">> >>

signOf(n) == IF n < 0 THEN -1 ELSE IF n > 0 THEN 1 ELSE 0

\* The orders in which a directory listing can return the files of a list.
Reorderings(fs) ==
  { q \in [1..Len(fs) -> seqRange(fs)] : seqRange(q) = seqRange(fs) }

\* C14: on the files of every folder the comparator is antisymmetric and
\* transitive, and the sorted list is the same for every order in which the
\* listing returns these files.
C14_StrictWeakOrdering ==
  fnStep = "sorted" =>
    LET S == seqRange(fnFiles) IN
      /\ \A a, b \in S : signOf(compareFiles(a, b)) = 0 - signOf(compareFiles(b, a))
      /\ \A a, b, c \in S :
           (compareFiles(a, b) < 0 /\ compareFiles(b, c) < 0) => compareFiles(a, c) < 0
      /\ \A q \in Reorderings(fnFiles) : sortFilesNumerically(q) = fnSorted

\* The entries readImageFiles has to keep: a name ending, in any case, in a
\* dot and one of the six extensions, and longer than that ending.
hasSupportedExtension(f) ==
  \E e \in supportedExtensions : Len(f) > Len(e) /\ endsWith(toLowerCase(f), e)

\* C20: the scanner keeps, unchanged and in listing order, exactly the
\* entries with a supported extension in any case; the listing 1.jpg, 2.PNG,
\* r.txt, 10.webp gives the three images, sorted as 1.jpg, 2.PNG, 10.webp.
C20_ScannerKeepsSupportedExtensions ==
  fnStep \in {"filtered", "sorted"} =>
    /\ fnFiles = SelectSeq(fnListing, hasSupportedExtension)
    /\ fnListing = << <<"1", ".", "j", "p", "g">>, <<"2", ".", "P", "N", "G">>,
                      <<"r", ".", "t", "x", "t">>, <<"1", "0", ".", "w", "e", "b", "p">> >>
         => /\ fnFiles = << <<"1", ".", "j", "p", "g">>, <<"2", ".", "P", "N", "G">>,
                            <<"1", "0", ".", "w", "e", "b", "p">> >>
            /\ fnStep = "sorted" => fnSorted = fnFiles

\* The listing 10.webp, r.txt, 2.PNG, 1.jpg scanned and sorted.
C20_Witness ==
  /\ fnStep = "sorted"
  /\ fnListing = << <<"1", "0", ".", "w", "e", "b", "p">>, <<"r", ".", "t", "x", "t">>,
                    <<"2", ".", "P", "N", "G">>, <<"1", ".", "j", "p", "g">> >>
  /\ fnFiles = << <<"1", "0", ".", "w", "e", "b", "p">>, <<"2", ".", "P", "N", "G">>,
                  <<"1", ".", "j", "p", "g">> >>
  /\ fnSorted = << <<"1", ".", "j", "p", "g">>, <<"2", ".", "P", "N", "G">>,
                   <<"1", "0", ".", "w", "e", "b", "p">> >>

\* ------------------------------------------------ the CSV functions
\* The characters of the lines handed to parseCsvLine, and these lines.
LineChars == {"a", ";", "\"", " "}
LineInputs == UNION { [1..n -> LineChars] : n \in 0..MaxLineLen }

\* The lines the texts handed to readCsvFile are made of: the header in two
\* spellings, a line holding both header words the other way round, valid lines, lines with one field, without name or path,
\* blank lines, a line with a third field and one with a quoted field.
CsvLinePool ==
  { <<"n", "o", "m", "e", ";", "c", "a", "m", "i", "n", "h", "o">>,
    <<"N", "O", "M", "E", ";", "C", "A", "M", "I", "N", "H", "O">>,
    <<"c", "a", "m", "i", "n", "h", "o", ";", "n", "o", "m", "e">>,
    <<"a", ";", "b">>,
    <<" ", "a", " ", ";", " ", "b", " ">>,
    <<"a">>,
    <<";", "b">>,
    <<"a", ";">>,
    <<>>,
    <<" ">>,
    <<"a", ";", "b", ";", "c">>,
    <<"\"", "a", ";", "b", "\"", ";", "c">> }

ContentInputs ==
  { joinLines(ls) : ls \in UNION { [1..n -> CsvLinePool] : n \in 0..MaxCsvLines } }

\* The folder lists handed to generateCSV, as listImmediateFolders builds
\* them: the names of the subdirectories of a directory d (pairwise
\* different), each with its path.
FolderNames == { <<"a">>, <<"b">>, <<"c">>, <<"a", ";", "b">>, <<"a", " ", "b">>, <<"\"", "q", "\"">> }
folderOf(item) == [nome |-> item, caminho |-> pathJoin(<<"d">>, item)]
FolderLists ==
  { [k \in 1..Len(q) |-> folderOf(q[k])] :
      q \in { r \in UNION { [1..n -> FolderNames] : n \in 0..MaxFolders } :
                \A a, b \in 1..Len(r) : a # b => r[a] # r[b] } }

\* String.prototype.replace(/;/g, ',')
replaceSemicolons(s) == [k \in 1..Len(s) |-> IF s[k] = ";" THEN "," ELSE s[k]]

\* generateCSV: the header line, then one line `nome;caminho` per folder with
\* the semicolons of both values replaced by commas.
RECURSIVE csvRows(_)
csvRows(fs) ==
  IF fs = <<>> THEN <<>>
  ELSE replaceSemicolons(Head(fs).nome) \o <<";">> \o replaceSemicolons(Head(fs).caminho)
       \o <<NL>> \o csvRows(Tail(fs))

generateCSV(fs) == headerLine \o <<NL>> \o csvRows(fs)

noResult == [ok |-> FALSE, error |-> "", entries |-> <<>>]

CsvInit ==
  /\ RunIdle
  /\ NameIdle
  /\ fnListing = <<>>
  /\ fnFiles = <<>>
  /\ fnSorted = <<>>
  /\ fnColumns = <<>>
  /\ fnResult = noResult
  /\ \/ fnStep = "line" /\ fnLine \in LineInputs /\ fnContent = <<>> /\ fnFolders = <<>>
     \/ fnStep = "content" /\ fnContent \in ContentInputs /\ fnLine = <<>>
          /\ fnFolders = <<>>
     \/ fnStep = "folders" /\ fnFolders \in FolderLists /\ fnLine = <<>>
          /\ fnContent = <<>>

\* parseCsvLine on a line.
ParseCsvLine ==
  /\ fnStep = "line"
  /\ fnColumns' = parseCsvLine(fnLine)
  /\ fnStep' = "parsed"
  /\ UNCHANGED <<runVars, fnListing, fnFiles, fnSorted, fnLine, fnContent, fnResult,
                 fnFolders, nameVars>>

\* generateCSV on a folder list: the text written to the CSV file.
GenerateCSV ==
  /\ fnStep = "folders"
  /\ fnContent' = generateCSV(fnFolders)
  /\ fnStep' = "generated"
  /\ UNCHANGED <<runVars, fnListing, fnFiles, fnSorted, fnLine, fnColumns, fnResult,
                 fnFolders, nameVars>>

\* readCsvFile on the text of a file, given or generated.
ReadCsvFile ==
  /\ fnStep \in {"content", "generated"}
  /\ fnResult' = readCsvFile(fnContent)
  /\ fnStep' = IF fnStep = "generated" THEN "reread" ELSE "read"
  /\ UNCHANGED <<runVars, fnListing, fnFiles, fnSorted, fnLine, fnColumns, fnContent,
                 fnFolders, nameVars>>

CsvNext ==
  \/ ParseCsvLine
  \/ GenerateCSV
  \/ ReadCsvFile

CsvSpec == CsvInit /\ [][CsvNext]_vars

\* The positions of the line l where a semicolon stands outside a quote
\* region: a semicolon preceded by an even number of quote characters.
quotesBefore(l, k) == Cardinality({ j \in 1..(k - 1) : l[j] = "\"" })
separators(l) == { k \in 1..Len(l) : l[k] = ";" /\ quotesBefore(l, k) % 2 = 0 }

\* The position of the n-th separator of l; 0 stands before the line and
\* Len(l) + 1 behind it.
fieldBound(l, n) ==
  IF n = 0 THEN 0
  ELSE IF n > Cardinality(separators(l)) THEN Len(l) + 1
  ELSE CHOOSE k \in separators(l) :
         Cardinality({ m \in separators(l) : m < k }) = n - 1

RECURSIVE flatten(_)
flatten(qs) == IF qs = <<>> THEN <<>> ELSE Head(qs) \o flatten(Tail(qs))

\* C15: parseCsvLine returns one field more than the line has semicolons
\* outside quote regions; field n is the text between separator n - 1 and
\* separator n without its quote characters; so the fields, concatenated,
\* are the characters of the line that are neither quotes nor separators,
\* in order.
C15_FieldsSplitAtUnquotedSemicolons ==
  fnStep = "parsed" =>
    /\ Len(fnColumns) = 1 + Cardinality(separators(fnLine))
    /\ \A n \in 1..Len(fnColumns) :
         fnColumns[n] =
           SelectSeq(SubSeq(fnLine, fieldBound(fnLine, n - 1) + 1,
                            fieldBound(fnLine, n) - 1),
                     LAMBDA c : c # "\"")
    /\ flatten(fnColumns) =
         LET kept == SelectSeq([k \in 1..Len(fnLine) |-> k],
                               LAMBDA k : fnLine[k] # "\"" /\ k \notin separators(fnLine))
         IN [n \in 1..Len(kept) |-> fnLine[kept[n]]]

\* The line ";"; parsed into the field ; and an empty field.
C15_Witness ==
  /\ fnStep = "parsed"
  /\ fnLine = <<"\"", ";", "\"", ";">>
  /\ fnColumns = << <<";">>, <<>> >>

\* The lines readCsvFile works on, and the entries that spell the header.
linesOf(text) == split(trim(text), NL)
spellsHeader(l) == toLowerCase(trim(l)) = headerLine
headerEntries(es) ==
  { k \in 1..Len(es) :
      toLowerCase(es[k].nome) = nomeWord /\ toLowerCase(es[k].caminho) = caminhoWord }

\* C16: readCsvFile returns one entry (name nome, path caminho, as spelled)
\* for every line spelling the header except for the first line of the text:
\* a header in the first line gives no entry, the same text in a later line
\* gives one.
C16_HeaderOnlyInFirstLine ==
  fnStep \in {"read", "reread"} =>
    LET lines == linesOf(fnContent)
        later == { k \in 2..Len(lines) : spellsHeader(lines[k]) }
    IN /\ Cardinality(headerEntries(fnResult.entries)) = Cardinality(later)
       /\ later # {} => fnResult.ok

\* A text with the header in its first and in its third line: the first
\* gives no entry, the third does.
C16_Witness ==
  /\ fnStep = "read"
  /\ fnContent = <<"n", "o", "m", "e", ";", "c", "a", "m", "i", "n", "h", "o", NL, "a", ";", "b", NL, "N", "O", "M", "E", ";", "C", "A", "M", "I", "N", "H", "O", NL>>
  /\ fnResult.ok
  /\ fnResult.entries =
       << [nome |-> <<"a">>, caminho |-> <<"b">>],
          [nome |-> <<"N", "O", "M", "E">>, caminho |-> <<"C", "A", "M", "I", "N", "H", "O">>] >>

\* Whether line k of lines gives an entry: not blank, not a header in the
\* first line, at least two fields, name and path not empty after trimming.
givesEntry(lines, k) ==
  LET l == trim(lines[k])
      cols == parseCsvLine(l)
  IN /\ l # <<>>
     /\ ~(k = 1 /\ includes(toLowerCase(l), nomeWord) /\ includes(toLowerCase(l), caminhoWord))
     /\ Len(cols) >= 2
     /\ trim(cols[1]) # <<>>
     /\ trim(cols[2]) # <<>>

\* C17: when readCsvFile returns, its entries are, in line order, the trimmed
\* first two fields of exactly the lines that give an entry; the other lines
\* change nothing about them. (It returns if and only if some line gives an
\* entry.)
C17_OneEntryPerValidLine ==
  fnStep \in {"read", "reread"} =>
    LET lines == linesOf(fnContent)
        valid == SelectSeq([k \in 1..Len(lines) |-> k], LAMBDA k : givesEntry(lines, k))
    IN /\ fnResult.ok = (valid # <<>>)
       /\ Len(fnResult.entries) = Len(valid)
       /\ \A n \in 1..Len(valid) :
            LET cols == parseCsvLine(trim(lines[valid[n]]))
            IN fnResult.entries[n] = [nome |-> trim(cols[1]), caminho |-> trim(cols[2])]

\* A text whose first line has one field and whose third has no name: only
\* the second line gives an entry.
C17_Witness ==
  /\ fnStep = "read"
  /\ fnContent = <<"a", NL, " ", "a", " ", ";", " ", "b", " ", NL, ";", "b", NL>>
  /\ fnResult.ok
  /\ fnResult.entries = << [nome |-> <<"a">>, caminho |-> <<"b">>] >>

\* C18: readCsvFile fails with the empty-input error on a text that is empty
\* or white space only, and with the no-valid-entries error on a text with
\* lines none of which gives an entry.
C18_EmptyInputDistinguished ==
  (fnStep \in {"read", "reread"} /\ ~fnResult.ok) =>
    fnResult.error = (IF trim(fnContent) = <<>> THEN "csv-vazio" ELSE "nenhuma-entrada")

\* C19: a non-empty folder list written by generateCSV and read back by
\* readCsvFile gives entries equal to the folders, in the same order.
C19_CsvRoundTrip ==
  (fnStep = "reread" /\ fnFolders # <<>>) =>
    (fnResult.ok /\ fnResult.entries = fnFolders)

\* ------------------------------------------- the output file name
MaxStemLen == 2

\* The output names: a stem followed by up to two endings, among them the
\* two format extensions, an extension in capitals and parts of one.
NameStems == UNION { [1..n -> {"r", "."}] : n \in 0..MaxStemLen }
NameEndings ==
  { <<>>, <<".", "p", "d", "f">>, <<".", "e", "p", "u", "b">>, <<".", "P", "D", "F">>,
    <<"p", "d", "f">>, <<".", "p", "d">> }
OutputNames ==
  { a \o b \o c : a \in NameStems, b \in NameEndings, c \in NameEndings } \ { <<>> }
FormatExts == { formatExt(p) : p \in Progs }

NameInit ==
  /\ RunIdle
  /\ fnStep = "name"
  /\ fnListing = <<>>
  /\ fnFiles = <<>>
  /\ fnSorted = <<>>
  /\ fnLine = <<>>
  /\ fnColumns = <<>>
  /\ fnContent = <<>>
  /\ fnResult = noResult
  /\ fnFolders = <<>>
  /\ fnName \in OutputNames
  /\ fnExt \in FormatExts
  /\ fnOut = <<>>

\* The output file name is derived from the name given.
NormalizeOutputName ==
  /\ fnStep = "name"
  /\ fnOut' = normalizeName(fnName, fnExt)
  /\ fnStep' = "normalized"
  /\ UNCHANGED <<runVars, fnListing, fnFiles, fnSorted, fnLine, fnColumns, fnContent,
                 fnResult, fnFolders, fnName, fnExt>>

\* The file name a run produced is given as the output name of another run.
NormalizeAgain ==
  /\ fnStep = "normalized"
  /\ fnName' = fnOut
  /\ fnOut' = normalizeName(fnOut, fnExt)
  /\ fnStep' = "renormalized"
  /\ UNCHANGED <<runVars, fnListing, fnFiles, fnSorted, fnLine, fnColumns, fnContent,
                 fnResult, fnFolders, fnExt>>

NameNext ==
  \/ NormalizeOutputName
  \/ NormalizeAgain

NameSpec == NameInit /\ [][NameNext]_vars

\* The last Len(e) characters of the name n are the extension e.
hasExtension(n, e) ==
  Len(n) >= Len(e) /\ \A k \in 1..Len(e) : n[Len(n) - Len(e) + k] = e[k]

\* C21: the output file name is the name given when that already ends in the
\* extension of the format, and the name with the extension appended once
\* when it does not; a name that was derived this way is not changed when
\* it is given again.
C21_ExtensionAppendedOnce ==
  /\ fnStep = "normalized" =>
       /\ hasExtension(fnOut, fnExt)
       /\ hasExtension(fnName, fnExt) => fnOut = fnName
       /\ ~hasExtension(fnName, fnExt) => fnOut = fnName \o fnExt
  /\ fnStep = "renormalized" => fnOut = fnName

\* r.pdf given for a PDF stays r.pdf, also when given again; r given for a
\* PDF has become r.pdf.
C21_Witness ==
  /\ fnStep = "renormalized"
  /\ fnExt = <<".", "p", "d", "f">>
  /\ fnOut = <<"r", ".", "p", "d", "f">>

\* ------------------------------------------------ claims on the program
\* C22: whenever a document is being assembled in a mode that writes into
\* the epub/ or pdf/ subdirectory (every mode but the single mode of the PDF
\* script), that directory exists: it was created if absent before the call.
C22_OutputDirCreatedBeforeWriting ==
  (lastBuild = "running" /\ usesOutDir) => outDirExists

\* The positions 1..Len(q) of a sequence, in order.
indexes(q) == [k \in 1..Len(q) |-> k]

\* The CSV entries that have images in the document, in CSV order, and the
\* positions in the document of the images of entry f.
includedFolders ==
  SelectSeq(indexes(entries),
            LAMBDA f : \E n \in 1..Len(docImages) : docImages[n].folderIndex = f)
positionsOf(f) ==
  SelectSeq(indexes(docImages), LAMBDA n : docImages[n].folderIndex = f)

\* The playOrder values of a navigation map in document order: each point,
\* then its nested points.
RECURSIVE playOrders(_)
playOrders(points) ==
  IF points = <<>> THEN <<>>
  ELSE <<Head(points).playOrder>>
         \o [j \in 1..Len(Head(points).children) |-> Head(points).children[j].playOrder]
         \o playOrders(Tail(points))

\* C23: the navigation map the merge script writes has one top-level point
\* per CSV entry with images in the document, in CSV order, labelled with the
\* entry's name; its nested points are the pages of that entry's images, in
\* document order, and of no other entry; the playOrder values increase
\* strictly in document order.
C23_OnePointPerFolderOnePerPage ==
  (prog = "mergeEpub" /\ tocNcx # noNav) =>
    /\ Len(tocNcx) = Len(includedFolders)
    /\ \A m \in 1..Len(tocNcx) :
         m <= Len(includedFolders) =>
           /\ tocNcx[m].label = entries[includedFolders[m]].nome
           /\ [j \in 1..Len(tocNcx[m].children) |-> tocNcx[m].children[j].id]
                = [j \in 1..Len(positionsOf(includedFolders[m])) |->
                     <<"page", positionsOf(includedFolders[m])[j]>>]
    /\ \A a, b \in 1..Len(playOrders(tocNcx)) :
         a < b => playOrders(tocNcx)[a] < playOrders(tocNcx)[b]

\* C24: once the package file of an EPUB build over N images is written,
\* record k of the image list has id and page number k; image k was copied
\* from the k-th image of the document to a name no other image was copied
\* to; page k shows that copy; the manifest holds, for k = 1..N in order, the
\* item img k for the copy and the item page k for the page; the spine is
\* page 1 .. page N.
C24_ManifestAndSpineFollowImageOrder ==
  contentOpf # noOpf =>
    LET N == Len(docImages) IN
    /\ Len(imageList) = N /\ Len(copied) = N /\ Len(pages) = N
    /\ \A k \in 1..N :
         /\ imageList[k].id = k
         /\ imageList[k].pageNumber = k
         /\ copied[k].src = pathOf(docImages[k])
         /\ \A j \in 1..N : j # k => copied[j].dest # copied[k].dest
         /\ pages[k].img = copied[k].dest
         /\ \A j \in 1..N : j # k => pages[j].file # pages[k].file
    /\ Len(contentOpf.manifest) = 2 * N
    /\ \A k \in 1..N :
         /\ contentOpf.manifest[2 * k - 1].id = <<"img", k>>
         /\ contentOpf.manifest[2 * k - 1].href = copied[k].dest
         /\ contentOpf.manifest[2 * k].id = <<"page", k>>
         /\ contentOpf.manifest[2 * k].href = pages[k].file
    /\ contentOpf.spine = [k \in 1..N |-> <<"page", k>>]

\* The package file of a merged EPUB over the images of two folders.
C24_Witness ==
  /\ prog = "mergeEpub"
  /\ contentOpf # noOpf
  /\ Len(docImages) = 5
  /\ Len(contentOpf.spine) = 5

\* C25 as stated: at every moment at most one temporary working directory
\* exists.
C25_AtMostOneTempDirAtATime == tempDirs <= 1

\* C25: a build is started only when no build is in progress, in batch mode
\* only after every earlier entry has ended; a working directory is created
\* only by the build in progress, which then has none yet; when a build ends
\* its working directory is gone, unless the removal failed (the only way a
\* directory stays on disk beside the one of a later build).
C25_OneBuildAtATime ==
  [][ /\ nAssemblies' # nAssemblies =>
           /\ nAssemblies' = nAssemblies + 1
           /\ lastBuild # "running" /\ lastBuild' = "running"
           /\ isBatch => (Len(log) = i - 1 /\ i' = i)
      /\ tempDirs' > tempDirs =>
           /\ tempDirs' = tempDirs + 1
           /\ lastBuild = "running" /\ lastBuild' = "running"
           /\ ~tempExists /\ tempExists'
      /\ (lastBuild = "running" /\ lastBuild' # "running") =>
           /\ tempExists' => rmFailed'
           /\ ~tempExists' => tempDirs' = tempDirs - (IF tempExists THEN 1 ELSE 0)
           /\ isBatch => Len(log') = Len(log) + 1
      /\ (lastBuild # "running" /\ lastBuild' # "running") =>
           (tempDirs' = tempDirs /\ tempExists' = tempExists)
    ]_vars

\* The EPUB of the second entry of a batch is being built in its working
\* directory; the build of the first entry has ended and left none.
C25_Witness ==
  /\ isBatch /\ prog = "epub"
  /\ i = 2 /\ nAssemblies = 2
  /\ lastBuild = "running" /\ tempExists /\ tempDirs = 1
  /\ log = <<[entry |-> 1, result |-> "ok"]>>

\* The positions in the collected list of the records of entry k.
collectedAt(k) == { n \in 1..Len(allImages) : allImages[n].folderIndex = k }

\* C26: in merge mode the collected list holds, for every CSV entry, either no
\* record or one record for every image scanned in its folder, side by side
\* and numbered 1 .. totalInFolder; an entry that failed or was skipped has
\* none; and a step of the run either leaves the list alone or adds the
\* records of the entry in progress behind the unchanged records of the
\* earlier entries.
C26_FolderAllOrNothing ==
  /\ [](isMerge =>
          /\ \A k \in 1..Len(entries) :
               LET scanned == filterImages(listingOf(entries[k].caminho))
                   at == collectedAt(k)
               IN \/ at = {}
                  \/ /\ Cardinality(at) = Len(scanned)
                     /\ \E first \in 1..Len(allImages) :
                          /\ at = first..(first + Len(scanned) - 1)
                          /\ \A n \in at :
                               /\ allImages[n].imageIndex = n - first + 1
                               /\ allImages[n].totalInFolder = Len(scanned)
                     /\ { allImages[n].filename : n \in at } = seqRange(scanned)
          /\ \A k \in 1..Len(log) : log[k].result # "ok" => collectedAt(k) = {})
  /\ [][ isMerge =>
           \/ allImages' = allImages
           \/ /\ Len(allImages') > Len(allImages)
              /\ SubSeq(allImages', 1, Len(allImages)) = allImages
              /\ \A n \in (Len(allImages) + 1)..Len(allImages') :
                   allImages'[n].folderIndex = i
       ]_vars

\* A merge run whose first folder gave its three images and whose second
\* folder, though it holds images, failed (an image was found missing or the
\* folder could not be read): nothing of it is in the list.
C26_Witness ==
  /\ isMerge /\ Len(log) = 2
  /\ log[1].result = "ok" /\ log[2].result = "error"
  /\ goodFolder(entries[2].caminho)
  /\ Len(allImages) = 3 /\ collectedAt(1) = 1..3

\* C27: a merge run that has visited all its entries without collecting an
\* image ends with status 1 and has assembled nothing: no build was started,
\* no temporary directory made, no document written; and as long as no image
\* is collected no step of a merge run creates the output directory.
C27_NothingCollectedNothingAssembled ==
  /\ [](( /\ isMerge
          /\ entries # <<>> /\ Len(log) = Len(entries)
          /\ allImages = <<>>) =>
         /\ pc = "exited" /\ exitCode = 1
         /\ nAssemblies = 0 /\ lastBuild = "none"
         /\ tempDirs = 0 /\ ~tempExists
         /\ outFiles = noFiles)
  /\ [][ (isMerge /\ allImages' = <<>>) => outDirExists' = outDirExists ]_vars

\* A merge run over an empty folder and a missing one, ended with status 1
\* without an output directory.
C27_Witness ==
  /\ isMerge /\ pc = "exited" /\ exitCode = 1
  /\ Len(entries) = 2 /\ Len(log) = 2
  /\ log[1].result = "skipped" /\ log[2].result = "error"
  /\ allImages = <<>> /\ ~outDirExists

\* C28: in the batch mode of the conversion scripts the steps of an entry
\* that come before its assembly (validation of the folder, scan for images,
\* existence check of the images) write nothing: no document is created or
\* overwritten, no output directory and no working directory is made; so an
\* entry that fails in one of them ends with the files as they were.
C28_FailedEntryLeavesFilesAlone ==
  [][ (isBatch /\ pc \in {"validate", "read", "access"}) =>
        /\ UNCHANGED <<outFiles, outDirExists, tempDirs, tempExists, work>>
        /\ (Len(log') = Len(log) + 1) =>
             (log'[Len(log')].result = "error" /\ nAssemblies' = nAssemblies)
    ]_vars

\* A batch run without an output directory whose only entries failed, the
\* first for a folder without images, the second for a missing folder:
\* nothing was written.
C28_Witness ==
  /\ isBatch /\ pc = "exited"
  /\ Len(log) = 2
  /\ emptyFolder(entries[1].caminho) /\ log[1].result = "error"
  /\ statOf(entries[2].caminho) = "ENOENT" /\ log[2].result = "error"
  /\ outFiles = noFiles /\ ~outDirExists /\ tempDirs = 0 /\ nAssemblies = 0

\* The files of the working directory of the latest EPUB build: the fixed
\* four, the copies of the images and the pages.
buildFiles ==
  {fMimetype, fContainer, fContentOpf, fTocNcx}
    \cup { copied[k].dest : k \in 1..Len(copied) }
    \cup { pages[k].file : k \in 1..Len(pages) }

\* C29: after an EPUB build that returned, the archive at the output path
\* holds exactly the files of that build's working directory, whatever was
\* at the output path before.
C29_ArchiveHoldsExactlyTheBuild ==
  (isEpub /\ lastBuild = "returned") =>
    /\ docPath \in DOMAIN outFiles
    /\ entryNames(outFiles[docPath]) = buildFiles

\* ------------------------------------------------ claims on the sorting
\* How often the name f occurs in the list q.
occurrences(q, f) == Cardinality({ k \in 1..Len(q) : q[k] = f })

\* C30: what sortFilesNumerically returns is a rearrangement of the list it
\* was given: the same length, and every name as often as before, none
\* altered, whatever mixture of numeric, non-numeric and equal stems the
\* list holds.
C30_SortedIsPermutation ==
  fnStep = "sorted" =>
    /\ Len(fnSorted) = Len(fnFiles)
    /\ \A f \in seqRange(fnFiles) \cup seqRange(fnSorted) :
         occurrences(fnSorted, f) = occurrences(fnFiles, f)

\* A list with two names of the same numeric value, a name without a number
\* and one with a sign, sorted into another order.
C30_Witness ==
  /\ fnStep = "sorted"
  /\ seqRange(fnFiles) =
       { <<"1", ".", "p", "n", "g">>, <<"1", ".", "j", "p", "g">>,
         <<"a", ".", "p", "n", "g">>, <<"+", "9", ".", "j", "p", "g">> }
  /\ fnSorted # fnFiles

====
